---- MODULE Spec2Model ----
(***************************************************************************)
(* A model of CS2_OT_ExportDemoCams.execute (src/cs2democam.py): the CSV   *)
(* log is read row by row, grouped per player, run through the crouch      *)
(* state machine, packed into six F-Curve channels per camera, shifted so  *)
(* that the earliest key lies on frame 1, and exported camera by camera.   *)
(*                                                                         *)
(* Lengths are integers (Blender units); an eased Z value is the exact     *)
(* rational <<numerator, denominator>> in lowest terms.  Rotation values   *)
(* are the uninterpreted terms <<axis, yaw, pitch>>.                        *)
(***************************************************************************)
EXTENDS Integers, Sequences, FiniteSets, TLC

VARIABLES
    log,            \* the records of the CSV file, in file order
    has_name_col,   \* whether the CSV header has a player_name column
    head_bu,        \* head offset in Blender units
    crouch_bu,      \* crouch depth in Blender units
    pc,             \* position of execute()
    err,            \* the exception that ended the run, or "none"
    raw_rows,       \* raw_rows
    order,          \* keys of cam_data_map, in insertion order
    cam_rows,       \* cam_data_map[player]['rows']
    crouch_dur,     \* cam_data_map[player]['crouch_dur']
    uncrouch_dur,   \* cam_data_map[player]['uncrouch_dur']
    frames,         \* cam_data_map[player]['frames'][channel]
    fcurves,        \* keyframe points of the player's action, per channel
    pi,             \* index in order of the player a loop is at
    ri,             \* index of the next row of that player (Pass 2)
    state,          \* state of the crouch state machine
    timer,          \* timer of the crouch state machine
    first,          \* first (None until a key is scanned)
    last,           \* last
    offset,         \* offset
    scene,          \* scene.frame_start, scene.frame_end, scene.render.fps
    selected,       \* the selected objects
    active,         \* view_layer.objects.active
    exports,        \* the calls of bpy.ops.export_scene.fbx, in order
    hist            \* <<state, timer>> after each row of the player Pass 2 is at

vars == <<log, has_name_col, head_bu, crouch_bu, pc, err, raw_rows, order,
          cam_rows, crouch_dur, uncrouch_dur, frames, fcurves, pi, ri, state,
          timer, first, last, offset, scene, selected, active, exports, hist>>

\* ---------------------------------------------------------------- bounds

\* the longest log of Spec
MaxRows == 3
\* ticks of Spec range over -1..MaxTick
MaxTick == 1
\* the longest log of SpecDurations
MaxFlagRows == 4
\* the longest log of SpecMachine
MaxMachineRows == 6

\* ------------------------------------------------------------- constants

DEFAULT_CROUCH_TICKS == 13
DEFAULT_UNCROUCH_TICKS == 9

Channels == <<"loc_x", "loc_y", "loc_z", "rot_x", "rot_y", "rot_z">>

ChannelSet == {Channels[i] : i \in 1..Len(Channels)}

\* Python's None as a player name or an object
None == "None"

\* a number variable holding None is <<>>, holding the number n is <<n>>
NoNumber == <<>>

Num(n) == <<n>>

Val(v) == v[1]

\* settings.tickrate and settings.export_fps as configured for the run
Settings == [tickrate |-> 64, export_fps |-> 30]

\* the host scene before the operator runs (a new Blender scene)
SceneBefore == [frame_start |-> 1, frame_end |-> 250, fps |-> 24]

\* ------------------------------------------------------------ arithmetic

Abs(n) == IF n < 0 THEN 0 - n ELSE n

RECURSIVE GCD(_, _)
GCD(a, b) == IF b = 0 THEN a ELSE GCD(b, a % b)

\* the rational n/d (d > 0) in lowest terms
Rat(n, d) ==
    LET g == GCD(Abs(n), d)
    IN  <<n \div g, d \div g>>

RatLess(a, b) == a[1] * b[2] < b[1] * a[2]

\* smoothstep(t/d) = t*t*(3 - 2t) at t/d, as the rational over d^3
smoothstep(t, d) == Rat(t * t * (3 * d - 2 * t), d * d * d)

\* a + b*c for an integer a, an integer b and a rational c
RatAddMul(a, b, c) == Rat(a * c[2] + b * c[1], c[2])

\* 1 - c
RatOneMinus(c) == Rat(c[2] - c[1], c[2])

\* ------------------------------------------------------------------ rows

Players == {"A", "B"}

\* <<is_ducking, is_ducking_in_progress, is_unducking_in_progress, is_standing>>
AllFlags == {<<a, b, c, d>> : a \in 0..1, b \in 0..1, c \in 0..1, d \in 0..1}

\* a record of the file whose columns all coerce
GoodRow(p, t, z, fl) ==
    [tick |-> t, player_name |-> p, pos_x |-> 0, pos_y |-> 0, pos_z |-> z,
     view_dir_x |-> 0, view_dir_y |-> 0,
     is_ducking |-> fl[1], is_ducking_in_progress |-> fl[2],
     is_unducking_in_progress |-> fl[3], is_standing |-> fl[4],
     defect |-> "none"]

\* a record with one column that is missing or does not coerce:
\*   "tick", "float", "flag": int()/float() of that column raises;
\*   "name": the record is short and player_name, the last column, is absent
\*           (csv.DictReader fills it with None)
Defects == {"tick", "float", "flag", "name"}

BadRow(p, d) == [GoodRow(p, 0, 0, <<0, 0, 0, 1>>) EXCEPT !.defect = d]

SeqsUpTo(S, n) == UNION {[1..k -> S] : k \in 0..n}

\* --------------------------------------------------------- pure helpers

\* the record after the conversions of Pass 1: the typed columns, with
\* player_name None where the file's record had none
Coerce(row) ==
    [tick |-> row.tick,
     player_name |-> IF row.defect = "name" THEN None ELSE row.player_name,
     pos_x |-> row.pos_x, pos_y |-> row.pos_y, pos_z |-> row.pos_z,
     view_dir_x |-> row.view_dir_x, view_dir_y |-> row.view_dir_y,
     is_ducking |-> row.is_ducking,
     is_ducking_in_progress |-> row.is_ducking_in_progress,
     is_unducking_in_progress |-> row.is_unducking_in_progress,
     is_standing |-> row.is_standing]

\* whether int()/float() accept every typed column of the record
Coercible(row) == row.defect \notin {"tick", "float", "flag"}

CamName(player) == "Cam_" \o player

\* detect_duration from row i on, count rows counted so far
RECURSIVE DetectFrom(_, _, _, _)
DetectFrom(rows, flag, i, count) ==
    IF i > Len(rows) THEN count
    ELSE IF rows[i][flag] = 1 THEN DetectFrom(rows, flag, i + 1, count + 1)
    ELSE IF count > 0 THEN count
    ELSE DetectFrom(rows, flag, i + 1, count)

\* (mutant) every row with the flag counted, no return at the end of a run
detect_total(rows, flag) == Cardinality({i \in DOMAIN rows : rows[i][flag] = 1})

detect_duration(rows, flag) == DetectFrom(rows, flag, 1, 0)

\* Python's  n or default  for an integer n
\* (mutant) a duration taken as detected, with no default
OrDetected(n, default) == n

OrDefault(n, default) == IF n = 0 THEN default ELSE n

CrouchDur(rows) ==
    OrDefault(detect_duration(rows, "is_ducking_in_progress"), DEFAULT_CROUCH_TICKS)

UncrouchDur(rows) ==
    OrDefault(detect_duration(rows, "is_unducking_in_progress"), DEFAULT_UNCROUCH_TICKS)

\* int(round(n/d)) for n >= 0, d > 0: Python 3 rounds a tie to the even
\* neighbour.  (The float uc * (1.0 - timer / cd) equals the exact quotient
\* on every tie with cd < 6.)
RoundDiv(n, d) ==
    LET q == n \div d
        r == n % d
    IN  IF 2 * r < d THEN q
        ELSE IF 2 * r > d THEN q + 1
        ELSE IF q % 2 = 0 THEN q ELSE q + 1

\* the timer of an early release: int(round(uc * (1.0 - (timer / cd))))
ReleaseTimer(t, cd, uc) == RoundDiv(uc * (cd - t), cd)

\* (mutant) state and timer carried over from the player before
CarryState == <<state, timer>>

\* state = 'standing'; timer = 0  at the start of a player's rows
StartState == <<"standing", 0>>

\* (mutant) a standing subject that never starts to crouch
StandingStay(t, row) == <<"standing", t>>

\* (mutant) a crouch that is_ducking starts as well
StandingStepDuck(t, row) ==
    IF row.is_ducking_in_progress = 1 \/ row.is_ducking = 1
    THEN <<"crouch", 1>> ELSE <<"standing", t>>

\* standing -> crouch on a row with is_ducking_in_progress
StandingStep(t, row) ==
    IF row.is_ducking_in_progress = 1 THEN <<"crouch", 1>> ELSE <<"standing", t>>

\* (mutant) the full crouch noticed only on the row after the timer reached cd
CrouchStepLate(t, row, cd, uc) ==
    IF t >= cd THEN <<"crouched", 0>>
    ELSE IF row.is_ducking_in_progress = 1 THEN <<"crouch", t + 1>>
    ELSE IF row.is_ducking = 0 THEN <<"uncrouch", ReleaseTimer(t, cd, uc)>>
    ELSE <<"crouch", t>>

\* (mutant) a release that does not look at is_ducking
CrouchStepNoDuck(t, row, cd, uc) ==
    LET t1 == IF row.is_ducking_in_progress = 1 /\ t < cd THEN t + 1 ELSE t
    IN  IF t1 >= cd THEN <<"crouched", 0>>
        ELSE IF row.is_ducking_in_progress = 0
             THEN <<"uncrouch", ReleaseTimer(t1, cd, uc)>>
        ELSE <<"crouch", t1>>

CrouchStep(t, row, cd, uc) ==
    LET t1 == IF row.is_ducking_in_progress = 1 /\ t < cd THEN t + 1 ELSE t
    IN  IF t1 >= cd THEN <<"crouched", 0>>
        ELSE IF row.is_ducking_in_progress = 0 /\ row.is_ducking = 0
             THEN <<"uncrouch", ReleaseTimer(t1, cd, uc)>>
        ELSE <<"crouch", t1>>

\* (mutant) a full crouch that is also left when is_standing is set
CrouchedStepStand(t, row) ==
    IF row.is_unducking_in_progress = 1 THEN <<"uncrouch", 1>>
    ELSE IF row.is_standing = 1 THEN <<"standing", 0>>
    ELSE <<"crouched", t>>

CrouchedStep(t, row) ==
    IF row.is_unducking_in_progress = 1 THEN <<"uncrouch", 1>> ELSE <<"crouched", t>>

\* (mutant) a stand-up on the row whose increment brings the timer to uc
UncrouchStepEager(t, uc) ==
    IF t + 1 < uc THEN <<"uncrouch", t + 1>> ELSE <<"standing", 0>>

UncrouchStep(t, uc) ==
    IF t < uc THEN <<"uncrouch", t + 1>> ELSE <<"standing", 0>>

\* (mutant) a stand-up that a new is_ducking_in_progress interrupts
TransitionRestart(s, t, row, cd, uc) ==
    CASE s = "standing" -> StandingStep(t, row)
      [] s = "crouch"   -> CrouchStep(t, row, cd, uc)
      [] s = "crouched" -> CrouchedStep(t, row)
      [] s = "uncrouch" -> IF row.is_ducking_in_progress = 1 THEN <<"crouch", 1>>
                           ELSE UncrouchStep(t, uc)

\* one row of the state machine: <<state, timer>> after the row
Transition(s, t, row, cd, uc) ==
    CASE s = "standing" -> StandingStep(t, row)
      [] s = "crouch"   -> CrouchStep(t, row, cd, uc)
      [] s = "crouched" -> CrouchedStep(t, row)
      [] s = "uncrouch" -> UncrouchStep(t, uc)

\* z_off / crouch_bu, a rational
OffsetFraction(s, t, cd, uc) ==
    CASE s = "crouch"   -> smoothstep(t, cd)
      [] s = "crouched" -> <<1, 1>>
      [] s = "uncrouch" -> RatOneMinus(smoothstep(t, uc))
      [] OTHER          -> <<0, 1>>

\* final_z = z + head_bu - z_off
FinalZ(z, head, crouch, s, t, cd, uc) ==
    RatAddMul(z + head, 0 - crouch, OffsetFraction(s, t, cd, uc))

\* the Euler angle of the row's orientation about one axis (uninterpreted)
Euler(axis, row) == <<axis, row.view_dir_x, row.view_dir_y>>

\* the value Pass 2 stores in a channel for a row
ChannelValue(ch, row, final_z) ==
    CASE ch = "loc_x" -> row.pos_x
      [] ch = "loc_y" -> row.pos_y
      [] ch = "loc_z" -> final_z
      [] OTHER        -> Euler(ch, row)

\* keyframe_points.sort(): by frame, keys of one frame keeping their order
RECURSIVE InsertKey(_, _)
InsertKey(sorted, kp) ==
    IF sorted = <<>> THEN <<kp>>
    ELSE IF sorted[Len(sorted)][1] <= kp[1] THEN Append(sorted, kp)
    ELSE Append(InsertKey(SubSeq(sorted, 1, Len(sorted) - 1), kp), sorted[Len(sorted)])

RECURSIVE SortKeysFrom(_, _, _)
SortKeysFrom(pts, i, acc) ==
    IF i > Len(pts) THEN acc ELSE SortKeysFrom(pts, i + 1, InsertKey(acc, pts[i]))

SortKeys(pts) == SortKeysFrom(pts, 1, <<>>)

\* the frames of every keyframe point of every F-Curve of every camera
AllKeyFrames(fc) ==
    UNION {UNION {{fc[p][ch][i][1] : i \in DOMAIN fc[p][ch]} : ch \in DOMAIN fc[p]} :
           p \in DOMAIN fc}

SetMin(S) == CHOOSE m \in S : \A n \in S : m <= n

SetMax(S) == CHOOSE m \in S : \A n \in S : m >= n

\* first after the scan of Pass 3.5 (None when there is no keyframe point)
ScanFirst(fc) ==
    IF AllKeyFrames(fc) = {} THEN NoNumber ELSE Num(SetMin(AllKeyFrames(fc)))

ScanLast(fc) ==
    IF AllKeyFrames(fc) = {} THEN NoNumber ELSE Num(SetMax(AllKeyFrames(fc)))

\* (mutant) the offset of a timeline that starts at frame 0
OffsetZeroBased(f) == Num(0 - Val(f))

\* (mutant) offset = 1.0 + first
OffsetSignSlip(f) == Num(1 + Val(f))

\* offset = 1.0 - first
Offset(f) == Num(1 - Val(f))

\* (mutant) every F-Curve shifted so that its own first key is on frame 1
ShiftKeysPerCurve(keys, off) ==
    [i \in DOMAIN keys |-> <<keys[i][1] + 1 - keys[1][1], keys[i][2]>>]

\* kp.co.x += offset on every keyframe point of one F-Curve
ShiftKeys(keys, off) == [i \in DOMAIN keys |-> <<keys[i][1] + off, keys[i][2]>>]

\* (mutant) the camera selected without deselecting the others
SelectAlso(sel, obj) == sel \cup {obj}

\* select_all(action='DESELECT'); cam_obj.select_set(True)
SelectOnly(sel, obj) == {obj}

\* out_path, relative to export_dir
OutFile(obj) == obj \o ".fbx"

\* ---------------------------------------------------------------- actions

\* the empty mapping (a dict with no key, an action with no F-Curve)
Empty == <<>>

EmptyFrames == [ch \in ChannelSet |-> <<>>]

Raise(e) == pc' = "error" /\ err' = e

\* with open(csv_path, newline='') as csvfile
OpenCsv ==
    /\ pc = "open"
    /\ \E ok \in BOOLEAN :
          IF ok THEN pc' = "parse" /\ err' = err
          ELSE Raise("FileNotFoundError")
    /\ UNCHANGED <<hist, log, has_name_col, head_bu, crouch_bu, raw_rows, order,
                   cam_rows, crouch_dur, uncrouch_dur, frames, fcurves, pi, ri,
                   state, timer, first, last, offset, scene, selected, active,
                   exports>>

\* Pass 1: one iteration of  for row in reader  (or its end)
ParseRow ==
    /\ pc = "parse"
    /\ IF Len(raw_rows) = Len(log)
       THEN pc' = "group" /\ err' = err /\ raw_rows' = raw_rows
       ELSE LET row == log[Len(raw_rows) + 1]
            IN  IF Coercible(row)
                THEN /\ raw_rows' = Append(raw_rows, Coerce(row))
                     /\ pc' = pc /\ err' = err
                ELSE /\ Raise("ValueError")
                     /\ raw_rows' = raw_rows
    /\ ri' = 1
    /\ UNCHANGED <<hist, log, has_name_col, head_bu, crouch_bu, order, cam_rows,
                   crouch_dur, uncrouch_dur, frames, fcurves, pi, state, timer,
                   first, last, offset, scene, selected, active, exports>>

\* one iteration of  for row in raw_rows  (camera creation and grouping)
GroupRow ==
    /\ pc = "group"
    /\ IF ri > Len(raw_rows)
       THEN /\ pc' = "detect" /\ pi' = 1 /\ ri' = ri /\ err' = err
            /\ UNCHANGED <<order, cam_rows, frames, fcurves>>
       ELSE IF ~has_name_col
       THEN /\ Raise("KeyError") /\ pi' = pi /\ ri' = ri
            /\ UNCHANGED <<order, cam_rows, frames, fcurves>>
       ELSE LET row == raw_rows[ri]
                player == row.player_name
            IN  /\ IF player \notin DOMAIN cam_rows
                   THEN /\ order' = Append(order, player)
                        /\ cam_rows' = cam_rows @@ (player :> <<row>>)
                        /\ frames' = frames @@ (player :> EmptyFrames)
                        /\ fcurves' = fcurves @@ (player :> Empty)
                   ELSE /\ cam_rows' = [cam_rows EXCEPT ![player] = Append(@, row)]
                        /\ UNCHANGED <<order, frames, fcurves>>
                /\ ri' = ri + 1 /\ pi' = pi /\ pc' = pc /\ err' = err
    /\ UNCHANGED <<hist, log, has_name_col, head_bu, crouch_bu, raw_rows, crouch_dur,
                   uncrouch_dur, state, timer, first, last, offset, scene,
                   selected, active, exports>>

\* Pass 1.5: one iteration of  for player, data in cam_data_map.items()
DetectDurations ==
    /\ pc = "detect"
    /\ IF pi > Len(order)
       THEN /\ pc' = "pass2" /\ pi' = 1 /\ ri' = 1
            /\ state' = StartState[1] /\ timer' = StartState[2]
            /\ UNCHANGED <<crouch_dur, uncrouch_dur>>
       ELSE LET player == order[pi]
            IN  /\ crouch_dur' = crouch_dur @@ (player :> CrouchDur(cam_rows[player]))
                /\ uncrouch_dur' = uncrouch_dur @@ (player :> UncrouchDur(cam_rows[player]))
                /\ pi' = pi + 1
                /\ UNCHANGED <<pc, ri, state, timer>>
    /\ UNCHANGED <<hist, log, has_name_col, head_bu, crouch_bu, err, raw_rows, order,
                   cam_rows, frames, fcurves, first, last, offset, scene,
                   selected, active, exports>>

\* Pass 2: one iteration of  for row in data['rows']  of the player at pi,
\* or the step to the next player (state and timer start over)
BuildRow ==
    /\ pc = "pass2"
    /\ IF pi > Len(order)
       THEN /\ pc' = "pass3" /\ pi' = 1
            /\ UNCHANGED <<ri, state, timer, frames, hist>>
       ELSE LET player == order[pi]
                cd == crouch_dur[player]
                uc == uncrouch_dur[player]
            IN  IF ri > Len(cam_rows[player])
                THEN /\ pi' = pi + 1 /\ ri' = 1
                     /\ state' = StartState[1] /\ timer' = StartState[2]
                     /\ hist' = <<>>
                     /\ UNCHANGED <<pc, frames>>
                ELSE LET row == cam_rows[player][ri]
                         nxt == Transition(state, timer, row, cd, uc)
                         final_z == FinalZ(row.pos_z, head_bu, crouch_bu,
                                           nxt[1], nxt[2], cd, uc)
                     IN  /\ state' = nxt[1]
                         /\ timer' = nxt[2]
                         /\ frames' = [frames EXCEPT ![player] =
                                [ch \in ChannelSet |->
                                    Append(@[ch], <<row.tick, ChannelValue(ch, row, final_z)>>)]]
                         /\ hist' = Append(hist, nxt)
                         /\ ri' = ri + 1
                         /\ UNCHANGED <<pc, pi>>
    /\ UNCHANGED <<log, has_name_col, head_bu, crouch_bu, err, raw_rows, order,
                   cam_rows, crouch_dur, uncrouch_dur, fcurves, first, last,
                   offset, scene, selected, active, exports>>

\* Pass 3: the six F-Curves of one camera, filled and sorted
CreateFCurves ==
    /\ pc = "pass3"
    /\ IF pi > Len(order)
       THEN pc' = "scan" /\ UNCHANGED <<pi, fcurves>>
       ELSE LET player == order[pi]
            IN  /\ fcurves' = [fcurves EXCEPT ![player] =
                        [ch \in ChannelSet |-> SortKeys(frames[player][ch])]]
                /\ pi' = pi + 1
                /\ pc' = pc
    /\ UNCHANGED <<hist, log, has_name_col, head_bu, crouch_bu, err, raw_rows, order,
                   cam_rows, crouch_dur, uncrouch_dur, frames, ri, state, timer,
                   first, last, offset, scene, selected, active, exports>>

\* Pass 3.5: the scan for first and last
ScanRange ==
    /\ pc = "scan"
    /\ first' = ScanFirst(fcurves)
    /\ last' = ScanLast(fcurves)
    /\ pc' = "offset"
    /\ UNCHANGED <<hist, log, has_name_col, head_bu, crouch_bu, err, raw_rows, order,
                   cam_rows, crouch_dur, uncrouch_dur, frames, fcurves, pi, ri,
                   state, timer, offset, scene, selected, active, exports>>

\* offset = 1.0 - first  (a TypeError when first is None)
ComputeOffset ==
    /\ pc = "offset"
    /\ IF first = NoNumber
       THEN Raise("TypeError") /\ UNCHANGED <<offset, pi>>
       ELSE offset' = Offset(first) /\ pc' = "shift" /\ pi' = 1 /\ err' = err
    /\ UNCHANGED <<hist, log, has_name_col, head_bu, crouch_bu, raw_rows, order,
                   cam_rows, crouch_dur, uncrouch_dur, frames, fcurves, ri,
                   state, timer, first, last, scene, selected, active, exports>>

\* the offset added to every keyframe point of one camera's F-Curves
ShiftCamera ==
    /\ pc = "shift"
    /\ IF pi > Len(order)
       THEN pc' = "scene" /\ UNCHANGED <<pi, fcurves>>
       ELSE LET player == order[pi]
            IN  /\ fcurves' = [fcurves EXCEPT ![player] =
                        [ch \in DOMAIN @ |-> ShiftKeys(@[ch], Val(offset))]]
                /\ pi' = pi + 1
                /\ pc' = pc
    /\ UNCHANGED <<hist, log, has_name_col, head_bu, crouch_bu, err, raw_rows, order,
                   cam_rows, crouch_dur, uncrouch_dur, frames, ri, state, timer,
                   first, last, offset, scene, selected, active, exports>>

\* scene.frame_start = 1; scene.frame_end = int(last + offset)
SetSceneRange ==
    /\ pc = "scene"
    /\ scene' = [scene EXCEPT !.frame_start = 1, !.frame_end = Val(last) + Val(offset)]
    /\ pc' = "prepare"
    /\ UNCHANGED <<hist, log, has_name_col, head_bu, crouch_bu, err, raw_rows, order,
                   cam_rows, crouch_dur, uncrouch_dur, frames, fcurves, pi, ri,
                   state, timer, first, last, offset, selected, active, exports>>

\* scene.render.fps = export_fps; os.makedirs(export_dir, exist_ok=True)
PrepareExport ==
    /\ pc = "prepare"
    /\ scene' = [scene EXCEPT !.fps = Settings.export_fps]
    /\ \E ok \in BOOLEAN :
          IF ok THEN pc' = "export" /\ err' = err
          ELSE Raise("OSError")
    /\ pi' = 1
    /\ UNCHANGED <<hist, log, has_name_col, head_bu, crouch_bu, raw_rows, order,
                   cam_rows, crouch_dur, uncrouch_dur, frames, fcurves, ri,
                   state, timer, first, last, offset, selected, active, exports>>

\* (mutant) the export loop entered while the offset is still being added
ExportReadyEarly == pc \in {"shift", "export"}

\* whether the loop of Pass 4 is at a camera
ExportReady == pc = "export"

\* what an exception of bpy.ops.export_scene.fbx does to the run
ExportFailed == Raise("RuntimeError") /\ pi' = pi

\* Pass 4: one camera selected, made active and exported (or the loop's end)
ExportCamera ==
    /\ ExportReady
    /\ IF pi > Len(order)
       THEN /\ pc' = "done" /\ err' = err
            /\ UNCHANGED <<pi, selected, active, exports>>
       ELSE LET cam_obj == CamName(order[pi])
            IN  /\ selected' = SelectOnly(selected, cam_obj)
                /\ active' = cam_obj
                /\ \E ok \in BOOLEAN :
                      /\ exports' = Append(exports,
                            [file |-> OutFile(cam_obj), objects |-> selected',
                             active |-> active', fps |-> scene.fps, ok |-> ok])
                      /\ IF ok THEN pi' = pi + 1 /\ pc' = pc /\ err' = err
                         ELSE ExportFailed
    /\ UNCHANGED <<hist, log, has_name_col, head_bu, crouch_bu, raw_rows, order,
                   cam_rows, crouch_dur, uncrouch_dur, frames, fcurves, ri,
                   state, timer, first, last, offset, scene>>

Next ==
    \/ OpenCsv
    \/ ParseRow
    \/ GroupRow
    \/ DetectDurations
    \/ BuildRow
    \/ CreateFCurves
    \/ ScanRange
    \/ ComputeOffset
    \/ ShiftCamera
    \/ SetSceneRange
    \/ PrepareExport
    \/ ExportCamera

\* the state execute() starts in, for a given file and settings
Start(l, named, head, crouch) ==
    /\ log = l
    /\ has_name_col = named
    /\ head_bu = head
    /\ crouch_bu = crouch
    /\ pc = "open"
    /\ err = "none"
    /\ raw_rows = <<>>
    /\ order = <<>>
    /\ cam_rows = Empty
    /\ crouch_dur = Empty
    /\ uncrouch_dur = Empty
    /\ frames = Empty
    /\ fcurves = Empty
    /\ pi = 1
    /\ ri = 1
    /\ state = "standing"
    /\ timer = 0
    /\ first = NoNumber
    /\ last = NoNumber
    /\ offset = NoNumber
    /\ scene = SceneBefore
    /\ selected = {}
    /\ active = None
    /\ exports = <<>>
    /\ hist = <<>>

\* the records Spec's logs are made of
SpecRows ==
    {GoodRow(p, t, 0, fl) : p \in Players, t \in (0 - 1)..MaxTick,
                            fl \in {<<0, 0, 0, 1>>, <<0, 1, 0, 0>>}}
    \cup {BadRow("A", d) : d \in Defects}

\* every log of at most MaxRows records under a full header, and the short
\* logs under a header without player_name
Init ==
    \/ \E l \in SeqsUpTo(SpecRows, MaxRows) : Start(l, TRUE, 65, 22)
    \/ \E l \in SeqsUpTo(SpecRows, 1) : Start(l, FALSE, 65, 22)

Spec == Init /\ [][Next]_vars

\* logs of at most MaxFlagRows well-formed records of two players, the tick
\* of a record its position in the file, the two transition flags free
FlagLogs ==
    {[i \in DOMAIN c |-> GoodRow(c[i][1], i, 0, <<0, c[i][2], c[i][3], 0>>)] :
        c \in SeqsUpTo(Players \X (0..1) \X (0..1), MaxFlagRows)}

InitDurations == \E l \in FlagLogs : Start(l, TRUE, 65, 22)

SpecDurations == InitDurations /\ [][Next]_vars

\* the flags of the records of SpecMachine: standing, entering, crouched,
\* exiting
MachineFlags == {<<0, 0, 0, 1>>, <<0, 1, 0, 0>>, <<1, 0, 0, 0>>, <<0, 0, 1, 0>>}

\* logs of at most MaxMachineRows well-formed records of one player
MachineLogs ==
    {[i \in DOMAIN c |-> GoodRow("A", i, 0, c[i])] :
        c \in SeqsUpTo(MachineFlags, MaxMachineRows)}

InitMachine == \E l \in MachineLogs : Start(l, TRUE, 65, 22)

SpecMachine == InitMachine /\ [][Next]_vars

\* the scenario: A on ticks 100..103 with is_ducking_in_progress 0,1,1,0,
\* B on ticks 50..52, every other flag zero; zs are A's raw pos_z
ScenarioA(zs) ==
    <<GoodRow("A", 100, zs[1], <<0, 0, 0, 0>>), GoodRow("A", 101, zs[2], <<0, 1, 0, 0>>),
      GoodRow("A", 102, zs[3], <<0, 1, 0, 0>>), GoodRow("A", 103, zs[4], <<0, 0, 0, 0>>)>>

ScenarioB ==
    <<GoodRow("B", 50, 0, <<0, 0, 0, 0>>), GoodRow("B", 51, 0, <<0, 0, 0, 0>>),
      GoodRow("B", 52, 0, <<0, 0, 0, 0>>)>>

\* the file in which the records of b stand at the positions S, in their
\* order, and those of a at the other positions, in theirs
Interleave(a, b, S) ==
    [i \in 1..(Len(a) + Len(b)) |->
        IF i \in S THEN b[Cardinality({j \in S : j <= i})]
        ELSE a[Cardinality({j \in (1..i) \ S : TRUE})]]

ScenarioLogs ==
    {Interleave(ScenarioA(zs), ScenarioB, S) :
        zs \in [1..4 -> {0, 5}],
        S \in {T \in SUBSET (1..7) : Cardinality(T) = 3}}

InitScenario == \E l \in ScenarioLogs, crouch \in {0, 22} : Start(l, TRUE, 65, crouch)

SpecScenario == InitScenario /\ [][Next]_vars

\* ------------------------------------------------- vocabulary of the claims

\* the subject identity a record of the file carries
SubjectOf(row) == IF row.defect = "name" THEN None ELSE row.player_name

Subjects == {SubjectOf(log[i]) : i \in DOMAIN log}

\* the position in the file of the first record of a subject
FirstSeen(p) == SetMin({i \in DOMAIN log : SubjectOf(log[i]) = p})

\* the ticks of a subject's records, and of all records
TicksOf(p) == {log[i].tick : i \in {j \in DOMAIN log : SubjectOf(log[j]) = p}}

LogTicks == {log[i].tick : i \in DOMAIN log}

RowCount(p) == Cardinality({i \in DOMAIN log : SubjectOf(log[i]) = p})

\* the frames of the keyframe points of one channel of one camera
ChannelTicks(p, ch) == {fcurves[p][ch][i][1] : i \in DOMAIN fcurves[p][ch]}

Ended == pc \in {"done", "error"}

\* the offset has been added to every camera's keys
ShiftDone ==
    \/ pc \in {"scene", "prepare", "export", "done"}
    \/ pc = "error" /\ err \in {"OSError", "RuntimeError"}

\* ... and the scene range has been set
RangeSet ==
    \/ pc \in {"prepare", "export", "done"}
    \/ pc = "error" /\ err \in {"OSError", "RuntimeError"}

\* ------------------------------------------------------------------- claims

\* C1: for every non-empty log, after the normalization pass the minimum tick
\* over all six channels of all subjects is exactly 1 (every subject has all
\* six channels, none with a key before frame 1, one key on frame 1), and the
\* scene end frame is max_original_tick - min_original_tick + 1, the minimum
\* and maximum taken over all subjects together.
C1_NormalizationInvariant ==
    RangeSet =>
        /\ \A p \in Subjects : DOMAIN fcurves[p] = ChannelSet
        /\ \A p \in Subjects : \A ch \in ChannelSet :
              \A t \in ChannelTicks(p, ch) : t >= 1
        /\ \E p \in Subjects : \A ch \in ChannelSet : 1 \in ChannelTicks(p, ch)
        /\ scene.frame_start = 1
        /\ scene.frame_end = SetMax(LogTicks) - SetMin(LogTicks) + 1

\* two subjects, the earliest tick not 1, a span of more than one tick
C1_Witness ==
    /\ pc = "done"
    /\ Cardinality(Subjects) = 2
    /\ SetMin(LogTicks) < 0
    /\ SetMax(LogTicks) > SetMin(LogTicks)
    /\ \E p \in Subjects : SetMin(TicksOf(p)) > SetMin(LogTicks)

\* every channel of every subject holds one key per record of the subject
ChannelsFull ==
    /\ DOMAIN fcurves = Subjects
    /\ \A p \in Subjects : \A ch \in ChannelSet :
          /\ DOMAIN fcurves[p] = ChannelSet
          /\ Len(fcurves[p][ch]) = RowCount(p)
          /\ Len(frames[p][ch]) = RowCount(p)

\* every key of every channel of every subject lies within the shifted range
AllShifted ==
    \A p \in Subjects : \A ch \in ChannelSet :
        ChannelTicks(p, ch) = {t + 1 - SetMin(LogTicks) : t \in TicksOf(p)}

\* whether some channel list or F-Curve holds a sample
ChannelWritten ==
    \E p \in DOMAIN frames :
        \/ \E ch \in ChannelSet : frames[p][ch] # <<>>
        \/ fcurves[p] # Empty

PassOrder ==
    /\ (pc = "pass2" \/ state # "standing" \/ ChannelWritten)
          => Len(raw_rows) = Len(log)
    /\ (pc \in {"scan", "offset", "shift"} \/ first # NoNumber) => ChannelsFull
    /\ exports # <<>> => AllShifted

\* C2: the passes are strictly ordered: no state-machine step or channel
\* write before every record of the log is parsed; normalization starts only
\* when every subject's channels are fully populated; no export call before
\* the offset is on every channel of every subject; and from the first export
\* call on no channel tick or value of any subject changes.
C2_PassesOrdered ==
    /\ []PassOrder
    /\ [][exports' # <<>> => (fcurves' = fcurves /\ frames' = frames)]_vars

\* the second export of a run whose earliest tick is not 1
C2_Witness ==
    /\ Len(exports) = 2
    /\ SetMin(LogTicks) # 1
    /\ Cardinality(LogTicks) > 1

C4_ExportFailureIsolated ==
    (Ended /\ \E i \in DOMAIN exports : ~exports[i].ok)
        => (pc = "done" /\ Len(exports) = Cardinality(Subjects))

\* C5: a log without records is a no-op completion: normalization does not
\* fail on the empty range, no export call is issued, the run finishes.
C5_EmptyLogCompletes ==
    (log = <<>> /\ Ended /\ err \notin {"FileNotFoundError", "OSError"})
        => (pc = "done" /\ exports = <<>>)

\* some record misses a required column or holds a value that does not coerce
Malformed ==
    \/ \E i \in DOMAIN log : log[i].defect # "none"
    \/ ~has_name_col /\ log # <<>>

\* C6: a malformed record at any position fails the whole run, and it fails
\* before any track or camera exists, before the scene is changed and before
\* any export.
C6_MalformedRecordAborts ==
    /\ (Malformed /\ Ended) => pc = "error"
    /\ (Malformed /\ pc = "error" /\ err \in {"ValueError", "KeyError"})
          => (order = <<>> /\ scene = SceneBefore /\ exports = <<>>)

\* C7: an invalid log path or output directory aborts the run before any
\* processing: no camera or track, no channel written, scene range and rate
\* as before.
C7_InvalidPathAbortsEarly ==
    (pc = "error" /\ err \in {"FileNotFoundError", "OSError"})
        => (order = <<>> /\ ~ChannelWritten /\ scene = SceneBefore)

\* the keys of a channel before normalization: the channel list, sorted
KeysBefore(p, ch) == SortKeys(frames[p][ch])

\* what normalization added to the tick of each key of one channel
TickDeltas(p, ch) ==
    LET before == KeysBefore(p, ch)
    IN  {fcurves[p][ch][i][1] - before[i][1] : i \in 1..RowCount(p)}

\* the values of one channel, key by key
ValuesOf(keys) == [i \in DOMAIN keys |-> keys[i][2]]

\* C8: normalization adds the one offset 1 - (global minimum tick) to the tick
\* of every key of every channel of every subject and changes no value: the
\* set of tick changes over all keys is that single number, so the difference
\* of the ticks of any two keys, of one subject or of two, is what it was.
C8_UniformShift ==
    ShiftDone =>
        /\ UNION {TickDeltas(p, ch) : p \in Subjects, ch \in ChannelSet}
              = {1 - SetMin(LogTicks)}
        /\ \A p \in Subjects : \A ch \in ChannelSet :
              ValuesOf(fcurves[p][ch]) = ValuesOf(KeysBefore(p, ch))

\* two subjects whose own earliest ticks differ, after the shift
C8_Witness ==
    /\ pc = "scene"
    /\ Cardinality(Subjects) = 2
    /\ \E p, q \in Subjects : SetMin(TicksOf(p)) < SetMin(TicksOf(q))
    /\ SetMin(LogTicks) # 1

\* the records of a subject, in file order
RowsOf(p) == SelectSeq(log, LAMBDA r : SubjectOf(r) = p)

\* a flag of a subject's records, record by record
FlagColumn(p, flag) == [i \in DOMAIN RowsOf(p) |-> RowsOf(p)[i][flag]]

\* the length of the first maximal run of 1 in a column, 0 when there is none
FirstRunLength(col) ==
    IF \A i \in DOMAIN col : col[i] # 1 THEN 0
    ELSE LET s == SetMin({i \in DOMAIN col : col[i] = 1})
             e == SetMax({j \in s..Len(col) : \A k \in s..j : col[k] = 1})
         IN  e - s + 1

\* C9: for each of the two transition flags the inferred duration of a subject
\* is the length of the first maximal contiguous run of records of that
\* subject with the flag true (a run that reaches the last record included),
\* and the default (13 for crouch entry, 9 for crouch exit) when the flag is
\* never true; only the subject's own records count.
C9_DurationIsFirstRun ==
    /\ \A p \in DOMAIN crouch_dur :
          LET n == FirstRunLength(FlagColumn(p, "is_ducking_in_progress"))
          IN  crouch_dur[p] = IF n = 0 THEN 13 ELSE n
    /\ \A p \in DOMAIN uncrouch_dur :
          LET n == FirstRunLength(FlagColumn(p, "is_unducking_in_progress"))
          IN  uncrouch_dur[p] = IF n = 0 THEN 9 ELSE n

\* a first run of one record with a longer run after it, beside another
\* subject's records, and an exit flag that is never true
C9_Witness ==
    /\ pc = "pass2"
    /\ "A" \in DOMAIN crouch_dur
    /\ FlagColumn("A", "is_ducking_in_progress") = <<1, 0, 1>>
    /\ FlagColumn("A", "is_unducking_in_progress") = <<0, 0, 0>>
    /\ "B" \in DOMAIN crouch_dur
    /\ FlagColumn("B", "is_ducking_in_progress") = <<1>>
    /\ SubjectOf(log[2]) = "B"
    /\ crouch_dur["A"] = 1
    /\ uncrouch_dur["A"] = 9

\* C10: in the scenario, with a positive crouch depth, tick 50 is output tick
\* 1 and tick 103 output tick 54 (B's keys on 1..3, A's on 51..54, the scene
\* ending on 54), and A's output Z is raw Z plus head offset at tick 100 and
\* strictly below raw Z plus head offset at ticks 101, 102 and 103.
C10_Scenario ==
    (ShiftDone /\ crouch_bu > 0) =>
        /\ \A ch \in ChannelSet :
              /\ [i \in 1..3 |-> fcurves["B"][ch][i][1]] = <<1, 2, 3>>
              /\ [i \in 1..4 |-> fcurves["A"][ch][i][1]] = <<51, 52, 53, 54>>
        /\ RangeSet => scene.frame_end = 54
        /\ fcurves["A"]["loc_z"][1][2] = <<RowsOf("A")[1].pos_z + head_bu, 1>>
        /\ \A i \in 2..4 :
              RatLess(fcurves["A"]["loc_z"][i][2], <<RowsOf("A")[i].pos_z + head_bu, 1>>)

\* the run finished, A's records and B's interleaved in the file
C10_Witness ==
    /\ pc = "done"
    /\ crouch_bu > 0
    /\ log[1].player_name = "A"
    /\ log[2].player_name = "B"
    /\ log[7].player_name = "B"
    /\ crouch_dur["A"] = 2
    /\ RowsOf("A")[2].pos_z > RowsOf("A")[1].pos_z

\* the steps of channel assembly and normalization, before Pass 4
BeforeExportStage == pc \in {"pass2", "pass3", "scan", "offset", "shift", "scene", "prepare"}

\* C11: the configured tickrate is the scene frame rate before baking: at
\* every step of channel assembly and normalization, until the export stage
\* switches the rate to export_fps, scene.render.fps is the tickrate setting.
C11_TickrateIsSceneRate ==
    BeforeExportStage => scene.fps = Settings.tickrate

\* ------------------------------------------- the state machine, row by row

\* the player whose rows Pass 2 is at, and the rows it has been through
InPass2 == pc = "pass2" /\ pi <= Len(order)

CurPlayer == order[pi]

CurRows == cam_rows[CurPlayer]

\* <<state, timer>> before row i of the current player
Before(i) == IF i = 1 THEN <<"standing", 0>> ELSE hist[i - 1]

\* final_z stored for row i of the current player
StoredZ(i) == frames[CurPlayer]["loc_z"][i][2]

\* raw Z plus head offset of row i, as a rational
RawZ(i) == <<CurRows[i].pos_z + head_bu, 1>>

\* rows i..(i+j-1) of the current player all have the entering flag
EnteringRun(i, j) == \A k \in i..(i + j - 1) : CurRows[k].is_ducking_in_progress = 1

\* the original statement of C12: in a run of entering rows that starts in
\* Standing the j-th row leaves Crouching with timer j for j < cd, and the
\* cd-th row leaves Crouched with timer 0
C12_CrouchRunFrom1 ==
    InPass2 =>
        \A i \in DOMAIN hist : \A j \in 1..(Len(hist) - i + 1) :
            (Before(i)[1] = "standing" /\ EnteringRun(i, j) /\ j <= crouch_dur[CurPlayer])
                => hist[i + j - 1] = IF j < crouch_dur[CurPlayer]
                                     THEN <<"crouch", j>> ELSE <<"crouched", 0>>

\* C12 (amended): as stated for every cd >= 2; for cd = 1 the first row of the
\* run leaves Crouching with timer 1 (its offset already the full crouch
\* depth) and the state is Crouched with timer 0 after the following row,
\* whatever its flags.  In both cases the offset of the row at which the
\* timer reaches cd is the full crouch depth.
C12_CrouchRun ==
    InPass2 =>
        LET cd == crouch_dur[CurPlayer]
        IN  \A i \in DOMAIN hist : \A j \in 1..(Len(hist) - i + 1) :
              (Before(i)[1] = "standing" /\ EnteringRun(i, j) /\ j <= cd) =>
                  /\ cd >= 2 => hist[i + j - 1] = IF j < cd THEN <<"crouch", j>>
                                                  ELSE <<"crouched", 0>>
                  /\ cd = 1 => /\ hist[i] = <<"crouch", 1>>
                               /\ i + 1 <= Len(hist) => hist[i + 1] = <<"crouched", 0>>
                  /\ j = cd => StoredZ(i + j - 1)
                                  = <<RawZ(i + j - 1)[1] - crouch_bu, 1>>

\* a run of three entering rows with cd = 3 that ends Crouched
C12_Witness ==
    /\ InPass2
    /\ Len(hist) = 3
    /\ crouch_dur[CurPlayer] = 3
    /\ EnteringRun(1, 3)
    /\ hist[2] = <<"crouch", 2>>
    /\ hist[3] = <<"crouched", 0>>

\* r is n/d rounded to the nearest integer, a tie to the even one
IsRounded(r, n, d) ==
    /\ 2 * Abs(r * d - n) <= d
    /\ 2 * Abs(r * d - n) = d => r % 2 = 0

\* C13: in Crouching with timer t < cd, on a row with the entering flag false:
\* if is_ducking is false too the state becomes Uncrouching with timer
\* round(uc * (1 - t/cd)), which lies in 0..uc; if is_ducking is true the
\* state stays Crouching with timer t.
C13_EarlyRelease ==
    InPass2 =>
        LET cd == crouch_dur[CurPlayer]
            uc == uncrouch_dur[CurPlayer]
        IN  \A i \in DOMAIN hist :
              (/\ Before(i)[1] = "crouch"
               /\ Before(i)[2] < cd
               /\ CurRows[i].is_ducking_in_progress = 0) =>
                  IF CurRows[i].is_ducking = 0
                  THEN /\ hist[i][1] = "uncrouch"
                       /\ hist[i][2] \in 0..uc
                       /\ IsRounded(hist[i][2], uc * (cd - Before(i)[2]), cd)
                  ELSE hist[i] = Before(i)

\* a second crouch, begun after a full crouch and stand-up fixed cd = 2, that
\* is released early after one row
C13_Witness ==
    /\ InPass2
    /\ crouch_dur[CurPlayer] = 2
    /\ \E i \in DOMAIN hist :
          /\ Before(i) = <<"crouch", 1>>
          /\ CurRows[i].is_ducking_in_progress = 0
          /\ CurRows[i].is_ducking = 0
          /\ hist[i][1] = "uncrouch"

\* the same crouch held for a row by is_ducking
C13_Held ==
    /\ InPass2
    /\ \E i \in DOMAIN hist :
          /\ Before(i) = <<"crouch", 1>>
          /\ CurRows[i].is_ducking_in_progress = 0
          /\ CurRows[i].is_ducking = 1
          /\ hist[i] = <<"crouch", 1>>

\* C14 as stated: a row that finds the state Uncrouching with timer < uc adds
\* 1 to the timer, and the row on which the timer so reaches uc leaves the
\* state Standing with timer 0.
C14_StandsOnReachingRow ==
    InPass2 =>
        LET uc == uncrouch_dur[CurPlayer]
        IN  \A i \in DOMAIN hist :
              (Before(i)[1] = "uncrouch" /\ Before(i)[2] < uc) =>
                  IF Before(i)[2] + 1 = uc
                  THEN hist[i] = <<"standing", 0>>
                  ELSE hist[i] = <<"uncrouch", Before(i)[2] + 1>>

\* C14: a row that finds the state Uncrouching with timer < uc leaves it
\* Uncrouching with the timer one higher; a row that finds the timer at uc
\* leaves the state Standing with timer 0.
C14_UncrouchCounts ==
    InPass2 =>
        LET uc == uncrouch_dur[CurPlayer]
        IN  \A i \in DOMAIN hist :
              Before(i)[1] = "uncrouch" =>
                  /\ Before(i)[2] <= uc
                  /\ Before(i)[2] < uc => hist[i] = <<"uncrouch", Before(i)[2] + 1>>
                  /\ Before(i)[2] = uc => hist[i] = <<"standing", 0>>

\* with uc = 2: a row that counts from 1 to 2, then the row that stands up
C14_Witness ==
    /\ InPass2
    /\ uncrouch_dur[CurPlayer] = 2
    /\ \E i \in DOMAIN hist :
          /\ i >= 2
          /\ Before(i - 1) = <<"uncrouch", 1>>
          /\ hist[i - 1] = <<"uncrouch", 2>>
          /\ hist[i] = <<"standing", 0>>

\* C15: a row that finds the state Crouched leaves it Uncrouching with timer 1
\* if is_unducking_in_progress is true, and otherwise Crouched with timer 0
\* and a Z lowered by the full crouch depth, whatever the other flags.
C15_CrouchedUntilExit ==
    InPass2 =>
        \A i \in DOMAIN hist :
            Before(i)[1] = "crouched" =>
                IF CurRows[i].is_unducking_in_progress = 1
                THEN hist[i] = <<"uncrouch", 1>>
                ELSE /\ hist[i] = <<"crouched", 0>>
                     /\ StoredZ(i) = <<RawZ(i)[1] - crouch_bu, 1>>

\* a full crouch that a row with is_standing leaves alone and that the next
\* row, with the exit flag, ends
C15_Witness ==
    /\ InPass2
    /\ \E i \in DOMAIN hist :
          /\ i >= 2
          /\ Before(i - 1)[1] = "crouched"
          /\ CurRows[i - 1].is_standing = 1
          /\ hist[i - 1] = <<"crouched", 0>>
          /\ CurRows[i].is_unducking_in_progress = 1
          /\ hist[i] = <<"uncrouch", 1>>

NeverEntering == \A k \in DOMAIN CurRows : CurRows[k].is_ducking_in_progress = 0

\* C16: for a subject whose is_ducking_in_progress is false on every row, the
\* state is Standing with timer 0 after every row and the stored Z of every
\* row is the raw Z plus the head offset.
C16_NeverCrouches ==
    (InPass2 /\ NeverEntering) =>
        \A i \in DOMAIN hist :
            /\ hist[i] = <<"standing", 0>>
            /\ StoredZ(i) = RawZ(i)

\* three rows done, with is_ducking, the exit flag and is_standing all seen
C16_Witness ==
    /\ InPass2
    /\ NeverEntering
    /\ Len(hist) >= 3
    /\ \E i, j, k \in DOMAIN hist :
          /\ CurRows[i].is_ducking = 1
          /\ CurRows[j].is_unducking_in_progress = 1
          /\ CurRows[k].is_standing = 1
    /\ hist[Len(hist)] = <<"standing", 0>>

TimerInRange(s, t, cd, uc) ==
    CASE s = "standing" -> t = 0
      [] s = "crouched" -> t = 0
      [] s = "crouch"   -> t \in 1..cd
      [] s = "uncrouch" -> t \in 0..uc

\* C17: both durations of every subject are >= 1, and after every row the
\* timer is 0 in Standing and Crouched, in 1..cd in Crouching and in 0..uc in
\* Uncrouching, and the stored Z lies between raw Z + head - crouch depth and
\* raw Z + head.
C17_NoZeroDuration ==
    /\ \A p \in DOMAIN crouch_dur : crouch_dur[p] >= 1
    /\ \A p \in DOMAIN uncrouch_dur : uncrouch_dur[p] >= 1
    /\ InPass2 =>
          \A i \in DOMAIN hist :
              /\ TimerInRange(hist[i][1], hist[i][2],
                              crouch_dur[CurPlayer], uncrouch_dur[CurPlayer])
              /\ ~RatLess(RawZ(i), StoredZ(i))
              /\ ~RatLess(StoredZ(i), <<RawZ(i)[1] - crouch_bu, 1>>)

\* a row part-way into a crouch and a row part-way out of one, each with a Z
\* strictly between the two ends
C17_Witness ==
    /\ InPass2
    /\ \E i, j \in DOMAIN hist :
          /\ hist[i][1] = "crouch"
          /\ hist[j][1] = "uncrouch"
          /\ \A k \in {i, j} :
                /\ RatLess(StoredZ(k), RawZ(k))
                /\ RatLess(<<RawZ(k)[1] - crouch_bu, 1>>, StoredZ(k))

\* the <<state, timer>> of the first n rows of a row sequence taken alone,
\* from Standing with timer 0
RECURSIVE OwnRun(_, _, _, _)
OwnRun(rows, cd, uc, n) ==
    IF n = 0 THEN <<>>
    ELSE LET prev == OwnRun(rows, cd, uc, n - 1)
             b == IF n = 1 THEN <<"standing", 0>> ELSE prev[n - 1]
         IN  Append(prev, Transition(b[1], b[2], rows[n], cd, uc))

OwnCd(p) ==
    LET n == FirstRunLength(FlagColumn(p, "is_ducking_in_progress"))
    IN  IF n = 0 THEN DEFAULT_CROUCH_TICKS ELSE n

OwnUc(p) ==
    LET n == FirstRunLength(FlagColumn(p, "is_unducking_in_progress"))
    IN  IF n = 0 THEN DEFAULT_UNCROUCH_TICKS ELSE n

\* the flags and raw Z of a subject's records, in file order
OwnInput(p) ==
    [i \in DOMAIN RowsOf(p) |->
        <<RowsOf(p)[i].is_ducking, RowsOf(p)[i].is_ducking_in_progress,
          RowsOf(p)[i].is_unducking_in_progress, RowsOf(p)[i].is_standing,
          RowsOf(p)[i].pos_z>>]

\* the Z values stored for a subject, in the order stored
StoredZs(p) == [i \in DOMAIN frames[p]["loc_z"] |-> frames[p]["loc_z"][i][2]]

\* C18: the states, timers and Z values of a subject are those of its own
\* records taken alone from Standing, whatever other subjects' records the log
\* holds and however they are interleaved; two subjects of one log with the
\* same records in the same order get the same Z values.
C18_OwnRowsOnly ==
    /\ InPass2 =>
          LET own == OwnRun(RowsOf(CurPlayer), OwnCd(CurPlayer), OwnUc(CurPlayer),
                            Len(hist))
          IN  /\ hist = own
              /\ \A i \in DOMAIN hist :
                    StoredZ(i) = FinalZ(RowsOf(CurPlayer)[i].pos_z, head_bu, crouch_bu,
                                        own[i][1], own[i][2],
                                        OwnCd(CurPlayer), OwnUc(CurPlayer))
    /\ pc \in {"pass3", "scan", "offset", "shift", "scene", "prepare"} =>
          \A p, q \in DOMAIN frames :
              OwnInput(p) = OwnInput(q) => StoredZs(p) = StoredZs(q)

\* two subjects with the same two records, both entering a crouch,
\* interleaved in the log, after Pass 2
C18_Witness ==
    /\ pc = "pass3"
    /\ Len(order) = 2
    /\ OwnInput(order[1]) = OwnInput(order[2])
    /\ Len(OwnInput(order[1])) = 2
    /\ \A i \in 1..2 : OwnInput(order[1])[i][2] = 1
    /\ SubjectOf(log[1]) # SubjectOf(log[2])
    /\ StoredZs(order[2]) = <<<<54, 1>>, <<43, 1>>>>

\* the offset Pass 3.5 would compute from the F-Curves as they are now, and
\* the F-Curves it would leave
OffsetAgain == Offset(ScanFirst(fcurves))

ShiftedAgain ==
    [p \in DOMAIN fcurves |->
        [ch \in DOMAIN fcurves[p] |-> ShiftKeys(fcurves[p][ch], Val(OffsetAgain))]]

\* C19: once the normalization pass has shifted a non-empty set of channels,
\* running it again computes an offset of 0, leaves every frame and every
\* value as it is, and sets the same scene end frame.
C19_NormalizationIdempotent ==
    ShiftDone =>
        /\ ScanFirst(fcurves) = Num(1)
        /\ OffsetAgain = Num(0)
        /\ ShiftedAgain = fcurves
        /\ RangeSet => Val(ScanLast(fcurves)) + Val(OffsetAgain) = scene.frame_end

\* a finished run of two subjects whose first pass did move the keys
C19_Witness ==
    /\ pc = "done"
    /\ Cardinality(Subjects) = 2
    /\ offset # Num(0)
    /\ SetMax(LogTicks) > SetMin(LogTicks)
    /\ OffsetAgain = Num(0)
    /\ ShiftedAgain = fcurves

\* C20: a row that finds the state Uncrouching leaves it Uncrouching or
\* Standing, and two rows that find the same timer leave the same state and
\* timer whatever their flags; a subject with uc + 1 rows or more after a row
\* that ended Uncrouching is Standing with timer 0 after one of the first
\* uc + 1 of them.
C20_UncrouchRunsOut ==
    InPass2 =>
        LET uc == uncrouch_dur[CurPlayer]
        IN  \A i \in DOMAIN hist :
              /\ Before(i)[1] = "uncrouch" =>
                    /\ hist[i][1] \in {"uncrouch", "standing"}
                    /\ \A j \in DOMAIN hist : Before(j) = Before(i) => hist[j] = hist[i]
              /\ (hist[i][1] = "uncrouch" /\ Len(hist) >= i + uc + 1) =>
                    \E k \in 1..(uc + 1) : hist[i + k] = <<"standing", 0>>

\* with uc = 2, a stand-up whose next two rows set is_ducking_in_progress and
\* that still ends Standing
C20_Witness ==
    /\ InPass2
    /\ uncrouch_dur[CurPlayer] = 2
    /\ \E i \in DOMAIN hist :
          /\ hist[i] = <<"uncrouch", 1>>
          /\ Len(hist) >= i + 3
          /\ CurRows[i + 1].is_ducking_in_progress = 1
          /\ CurRows[i + 2].is_ducking_in_progress = 1
          /\ hist[i + 1] = <<"uncrouch", 2>>
          /\ hist[i + 2] = <<"standing", 0>>

====
